---- MODULE Spec2Model ----
(***************************************************************************)
(* A model of spandex's units (src/units.rs), items                        *)
(* (src/typography/items.rs) and NaiveJustifier::justify                   *)
(* (src/typography/justification.rs).                                      *)
(*                                                                         *)
(* Lengths.  Pt is an f64 in the source.  The model keeps every length of  *)
(* the justifier as an exact rational: an integer count of 1/PtUnit pt,    *)
(* where PtUnit is a multiple of 2 (for Pt(7.5)) and of every divisor the  *)
(* gap division of a line can use (1 .. MaxLen).  f64 rounding is not      *)
(* modelled.  justify adds item.width to a Pt accumulator as is, so item   *)
(* widths are lengths in the same unit.                                    *)
(***************************************************************************)
EXTENDS Integers, Sequences, FiniteSets, TLC

\* Longest paragraph (number of items, the skipped first one included).
MaxLen == 7

\* Largest numerator of the unit conversions' inputs.
MaxUnitNum == 40

----------------------------------------------------------------------------
(* Lengths of the justifier *)

RECURSIVE Gcd(_, _)
Gcd(a, b) == IF b = 0 THEN a ELSE Gcd(b, a % b)

RECURSIVE LcmUpTo(_)
LcmUpTo(n) == IF n <= 1 THEN 1 ELSE LET l == LcmUpTo(n - 1) IN (l * n) \div Gcd(l, n)

\* Model units per point.
PtUnit == 2 * LcmUpTo(MaxLen)

\* Pt(7.5), in half points.
FixedSpaceHalfPt == 15

\* Pt(7.5): the advance of the running extent at a glue, and the fallback gap.
FixedSpace == FixedSpaceHalfPt * (PtUnit \div 2)

\* What f64 division by zero yields (never computed by the code as written).
PtInfinity == 1000000 * PtUnit

----------------------------------------------------------------------------
(* Items (src/typography/items.rs) *)

INFINITELY_POSITIVE_PENALTY == 2147483647

INFINITELY_NEGATIVE_PENALTY == (-2147483647) - 1

\* Item::from_glyph: the glyph is the payload, the width comes from the font.
from_glyph(glyph, width) == [kind |-> "Box", width |-> width, glyph |-> glyph]

\* Item::glue
glue(ideal_spacing, stretchability, shrinkability) ==
    [kind |-> "Glue", width |-> ideal_spacing,
     stretchability |-> stretchability, shrinkability |-> shrinkability]

\* Item::penalty
penalty(width, value, flagged) ==
    [kind |-> "Penalty", width |-> width, value |-> value, flagged |-> flagged]

\* The widths the font gives a glyph, the glue and the penalties a paragraph
\* is built from, and the target widths.
BoxWidths == {1 * PtUnit, 15 * PtUnit}

Glues == {glue(6 * PtUnit, 3 * PtUnit, 2 * PtUnit)}

Penalties == {penalty(0, INFINITELY_NEGATIVE_PENALTY, FALSE),
              penalty(3 * PtUnit, INFINITELY_POSITIVE_PENALTY, TRUE)}

TextWidths == {10 * PtUnit, 30 * PtUnit}

----------------------------------------------------------------------------
(* Units (src/units.rs).  Mm and Pt are f64 in the source; a value is kept  *)
(* here as the exact rational num / den, den > 0.                          *)

\* 1 pt = 65,536 sp
SpPerPt == 65536

\* 72.27 (points in an inch), in hundredths
PtPerInch100 == 7227

\* 25.4 (millimetres in an inch), in hundredths
MmPerInch100 == 2540

Abs(n) == IF n < 0 THEN -n ELSE n

Sign(n) == IF n < 0 THEN -1 ELSE 1

\* The rational n / d cut to its integer part (a cast with no round()).
Truncate(n, d) == Sign(n) * (Abs(n) \div d)

\* f64::round of the rational n / d: the nearest integer, a half goes away
\* from zero.
Round(n, d) == Sign(n) * ((2 * Abs(n) + d) \div (2 * d))

\* round(a * n / b) for a, b > 0, with a * n never formed: a = q * b + r, so
\* a * n / b = q * n + r * n / b.
RoundMulDiv(a, n, b) ==
    Sign(n) * ((a \div b) * Abs(n) + Round((a % b) * Abs(n), b))

\* impl From<Pt> for Sp: Sp((65_536.0 * pt.0).round() as i64)
SpFromPt(num, den) == Round(SpPerPt * num, den)

\* impl From<Mm> for Sp: Sp(((72.27 / 25.4) * 65_536.0 * mm.0).round() as i64)
SpFromMm(num, den) == RoundMulDiv(PtPerInch100 * SpPerPt, num, MmPerInch100 * den)

\* The values converted: k / 131072 pt (k / 2 sp: every odd k is a tie),
\* k / 100 pt and 56.82 pt; k / 10 mm and 17.5 mm.
Numerators == (-MaxUnitNum)..MaxUnitNum

PtValues == (Numerators \X {2 * SpPerPt, 100}) \cup {<<5682, 100>>}

MmValues == (Numerators \X {10}) \cup {<<175, 10>>}

----------------------------------------------------------------------------
(* State *)

VARIABLES
    paragraph,      \* the items the iterator has yielded so far (the input)
    text_width,     \* the target width
    pc,             \* "skip": before skip(1); "loop": in the for loop; "done"
    ret,            \* the emitted lines, each a sequence of <<glyph, offset>>
    current_line,   \* the words of the line being filled
    current_word,   \* the boxes of the word being read
    current_x,      \* the running extent
    line_glue,      \* history: the glue that closed each word of current_line
    layout,         \* history: per emitted line, how its gap was chosen
    conv            \* the last unit conversion made

jvars == <<paragraph, text_width, pc, ret, current_line, current_word,
           current_x, line_glue, layout>>

vars == <<paragraph, text_width, pc, ret, current_line, current_word,
          current_x, line_glue, layout, conv>>

----------------------------------------------------------------------------
(* NaiveJustifier::justify *)

RECURSIVE WordWidth(_)
WordWidth(word) ==
    IF word = <<>> THEN 0 ELSE Head(word).width + WordWidth(Tail(word))

\* for word in &current_line { for glyph in word { occupied_width += .. } }
RECURSIVE OccupiedWidth(_)
OccupiedWidth(line) ==
    IF line = <<>> THEN 0 ELSE WordWidth(Head(line)) + OccupiedWidth(Tail(line))

\* Pt / f64
DivPt(a, n) == IF n = 0 THEN PtInfinity ELSE a \div n

\* WordSpace with the guard off by one: a line of one word divides by zero.
WordSpaceGuardOffByOne(line, available_space) ==
    IF Len(line) > 0
    THEN [divided |-> TRUE, divisor |-> Len(line) - 1,
          space |-> DivPt(available_space, Len(line) - 1)]
    ELSE [divided |-> FALSE, divisor |-> 0, space |-> FixedSpace]

\* let word_space = if current_line.len() > 1 { .. / (len - 1) } else { 7.5 }
WordSpace(line, available_space) ==
    IF Len(line) > 1
    THEN [divided |-> TRUE, divisor |-> Len(line) - 1,
          space |-> DivPt(available_space, Len(line) - 1)]
    ELSE [divided |-> FALSE, divisor |-> 0, space |-> FixedSpace]

\* for item in &word { match item.content { BoundingBox => push, advance } }
RECURSIVE LayoutWord(_, _)
LayoutWord(word, x) ==
    IF word = <<>> THEN <<>>
    ELSE IF Head(word).kind = "Box"
         THEN <<<<Head(word).glyph, x>>>>
              \o LayoutWord(Tail(word), x + Head(word).width)
         ELSE LayoutWord(Tail(word), x)

\* for word in current_line { <the word's glyphs>; current_x += word_space }
RECURSIVE LayoutLine(_, _, _)
LayoutLine(line, x, word_space) ==
    IF line = <<>> THEN <<>>
    ELSE LayoutWord(Head(line), x)
         \o LayoutLine(Tail(line), x + WordWidth(Head(line)) + word_space,
                       word_space)

\* MatchItem with a penalty's width added to the running extent.
MatchItemCountingPenalty(s, item) ==
    CASE item.kind = "Box" ->
           [s EXCEPT !.current_x = @ + item.width,
                     !.current_word = Append(@, item)]
      [] item.kind = "Glue" ->
           [s EXCEPT !.current_line = Append(@, s.current_word),
                     !.current_x = @ + FixedSpace,
                     !.current_word = <<>>]
      [] OTHER -> [s EXCEPT !.current_x = @ + item.width]

\* match item.content { BoundingBox | Glue | Penalty }
MatchItem(s, item) ==
    CASE item.kind = "Box" ->
           [s EXCEPT !.current_x = @ + item.width,
                     !.current_word = Append(@, item)]
      [] item.kind = "Glue" ->
           [s EXCEPT !.current_line = Append(@, s.current_word),
                     !.current_x = @ + FixedSpace,
                     !.current_word = <<>>]
      [] OTHER -> s

\* if current_x > text_width && current_line.len() > 1
Overflows(s, width) == s.current_x > width /\ Len(s.current_line) > 1

\* The words kept on the line at a flush: current_line.pop() taken off.
Kept(line) == SubSeq(line, 1, Len(line) - 1)

\* Flush as it would be if the word being read were broken at the overflow:
\* its boxes so far end the emitted line, the rest of it starts the next.
FlushBreakingWord(s, width) ==
    LET last_word == s.current_line[Len(s.current_line)]
        line == Kept(s.current_line) \o <<s.current_word>>
        available_space == width - OccupiedWidth(line)
        word_space == WordSpace(line, available_space).space
    IN  [s EXCEPT !.current_x = 0,
                  !.ret = Append(@, LayoutLine(line, 0, word_space)),
                  !.current_line = <<last_word>>,
                  !.current_word = <<>>]

\* The body of the overflow branch.
Flush(s, width) ==
    LET last_word == s.current_line[Len(s.current_line)]
        line == Kept(s.current_line)
        available_space == width - OccupiedWidth(line)
        word_space == WordSpace(line, available_space).space
    IN  [s EXCEPT !.current_x = 0,
                  !.ret = Append(@, LayoutLine(line, 0, word_space)),
                  !.current_line = <<last_word>>]

\* One iteration of the for loop.
Step(s, item, width) ==
    LET m == MatchItem(s, item)
    IN  IF Overflows(m, width) THEN Flush(m, width) ELSE m

\* FinalLine as it would be if the last line were justified like the others.
FinalLineJustified(line) ==
    LayoutLine(line, 0,
        WordSpace(line, text_width - OccupiedWidth(line)).space)

\* After the loop: what is left in current_line, spaced by Pt(7.5).
FinalLine(line) == LayoutLine(line, 0, FixedSpace)

\* The locals at the loop's entry.
Locals0 == [ret |-> <<>>, current_line |-> <<>>, current_word |-> <<>>,
            current_x |-> 0]

RECURSIVE Loop(_, _, _)
Loop(s, items, width) ==
    IF items = <<>> THEN s ELSE Loop(Step(s, Head(items), width), Tail(items), width)

\* justify as a function of its arguments.
Justify(items, width) ==
    LET s == Loop(Locals0, IF items = <<>> THEN <<>> ELSE Tail(items), width)
    IN  Append(s.ret, FinalLine(s.current_line))

----------------------------------------------------------------------------
(* The justifier as a state machine *)

Locals == [ret |-> ret, current_line |-> current_line,
           current_word |-> current_word, current_x |-> current_x]

RECURSIVE CountBoxes(_)
CountBoxes(items) ==
    IF items = <<>> THEN 0
    ELSE (IF Head(items).kind = "Box" THEN 1 ELSE 0) + CountBoxes(Tail(items))

\* The items a paragraph can continue with; a box holds the next glyph.
NextItems ==
    {from_glyph(CountBoxes(paragraph) + 1, w) : w \in BoxWidths}
        \cup Glues \cup Penalties

NoConv == [from |-> "none", num |-> 0, den |-> 1, sp |-> 0]

Init ==
    /\ paragraph = <<>>
    /\ text_width \in TextWidths
    /\ pc = "skip"
    /\ ret = <<>>
    /\ current_line = <<>>
    /\ current_word = <<>>
    /\ current_x = 0
    /\ line_glue = <<>>
    /\ layout = <<>>
    /\ conv = NoConv

\* paragraph.iter().skip(1): the first item is not looked at.
SkipFirst(item) ==
    /\ pc = "skip"
    /\ Len(paragraph) < MaxLen
    /\ paragraph' = Append(paragraph, item)
    /\ pc' = "loop"
    /\ UNCHANGED <<text_width, ret, current_line, current_word, current_x,
                   line_glue, layout, conv>>

\* What `layout` records of a line laid out with these words.
LineRecord(line, glues, ws, final) ==
    [final |-> final, words |-> Len(line), divided |-> ws.divided,
     divisor |-> ws.divisor, space |-> ws.space,
     occupied |-> OccupiedWidth(line),
     sizes |-> [i \in 1..Len(line) |-> Len(line[i])],
     glues |-> SubSeq(glues, 1, Len(line) - 1)]

Iterate(item) ==
    /\ pc = "loop"
    /\ Len(paragraph) < MaxLen
    /\ paragraph' = Append(paragraph, item)
    /\ LET m == MatchItem(Locals, item)
           s == Step(Locals, item, text_width)
           g == IF item.kind = "Glue" THEN Append(line_glue, item) ELSE line_glue
       IN  /\ ret' = s.ret
           /\ current_line' = s.current_line
           /\ current_word' = s.current_word
           /\ current_x' = s.current_x
           /\ IF Overflows(m, text_width)
              THEN LET line == Kept(m.current_line)
                   IN  /\ line_glue' = <<g[Len(g)]>>
                       /\ layout' = Append(layout,
                              LineRecord(line, g,
                                  WordSpace(line, text_width - OccupiedWidth(line)),
                                  FALSE))
              ELSE /\ line_glue' = g
                   /\ layout' = layout
    /\ UNCHANGED <<text_width, pc, conv>>

\* The iterator is exhausted: the final line is laid out and pushed.
Finish ==
    /\ pc = "loop"
    /\ pc' = "done"
    /\ ret' = Append(ret, FinalLine(current_line))
    /\ layout' = Append(layout,
           LineRecord(current_line, line_glue,
               [divided |-> FALSE, divisor |-> 0, space |-> FixedSpace], TRUE))
    /\ UNCHANGED <<paragraph, text_width, current_line, current_word,
                   current_x, line_glue, conv>>

\* An empty paragraph: the loop body never runs.
FinishEmpty ==
    /\ pc = "skip"
    /\ pc' = "done"
    /\ ret' = Append(ret, FinalLine(current_line))
    /\ layout' = Append(layout,
           LineRecord(current_line, line_glue,
               [divided |-> FALSE, divisor |-> 0, space |-> FixedSpace], TRUE))
    /\ UNCHANGED <<paragraph, text_width, current_line, current_word,
                   current_x, line_glue, conv>>

\* Sp::from(Pt(num / den))
FromPt(v) ==
    /\ conv' = [from |-> "Pt", num |-> v[1], den |-> v[2],
                sp |-> SpFromPt(v[1], v[2])]
    /\ UNCHANGED jvars

\* Sp::from(Mm(num / den))
FromMm(v) ==
    /\ conv' = [from |-> "Mm", num |-> v[1], den |-> v[2],
                sp |-> SpFromMm(v[1], v[2])]
    /\ UNCHANGED jvars

FromPtAny == \E v \in PtValues : FromPt(v)

FromMmAny == \E v \in MmValues : FromMm(v)

UnitNext == FromPtAny \/ FromMmAny

UnitSpec == Init /\ [][UnitNext]_vars

SkipAny == \E item \in NextItems : SkipFirst(item)

IterateAny == \E item \in NextItems : Iterate(item)

Next == SkipAny \/ IterateAny \/ Finish \/ FinishEmpty

Spec == Init /\ [][Next]_vars

----------------------------------------------------------------------------
(* What the properties speak of *)

\* The positions of the paragraph that hold a box.
BoxPositions == {i \in 1..Len(paragraph) : paragraph[i].kind = "Box"}

\* The position of the box that holds glyph g.
PositionOf(g) == CHOOSE i \in BoxPositions : paragraph[i].glyph = g

WidthOf(g) == paragraph[PositionOf(g)].width

\* The word of the box at position i: the number of glue items the loop has
\* seen before it (the skipped first item does not count).
WordAt(i) == Cardinality({j \in 2..(i - 1) : paragraph[j].kind = "Glue"})

WordOf(g) == WordAt(PositionOf(g))

\* The places <<line, index>> of the output.
Places == {p \in (1..Len(ret)) \X (1..MaxLen) : p[2] <= Len(ret[p[1]])}

GlyphAt(p) == ret[p[1]][p[2]][1]

OffsetAt(p) == ret[p[1]][p[2]][2]

\* The places of the output that hold glyph g.
PlacesOf(g) == {p \in Places : GlyphAt(p) = g}

\* The words with a glyph on line l.
WordsOn(l) == {WordOf(ret[l][k][1]) : k \in 1..Len(ret[l])}

\* The number of glue items after the skipped first item.
GlueCount == Cardinality({j \in 2..Len(paragraph) : paragraph[j].kind = "Glue"})

\* The positions of the boxes of word w (words are counted from 0).
WordBoxes(w) == {i \in BoxPositions : i > 1 /\ WordAt(i) = w}

RECURSIVE SumWidths(_)
SumWidths(positions) ==
    IF positions = {} THEN 0
    ELSE LET i == CHOOSE j \in positions : TRUE
         IN  paragraph[i].width + SumWidths(positions \ {i})

----------------------------------------------------------------------------
(* Properties of justify *)

\* C1 (exhaustiveness), for the boxes the loop reads: when justify returns,
\* every box of the input after the skipped first item is in exactly one
\* place of the output.
Exhaustiveness ==
    pc = "done" =>
        \A i \in BoxPositions :
            i > 1 => Cardinality(PlacesOf(paragraph[i].glyph)) = 1

\* C2 (indivisibility): two emitted glyphs of one word are on the same line,
\* in input order, with only glyphs of that word between them.
Indivisibility ==
    \A p, q \in Places :
        WordOf(GlyphAt(p)) = WordOf(GlyphAt(q)) =>
            /\ p[1] = q[1]
            /\ p[2] < q[2] =>
                  /\ PositionOf(GlyphAt(p)) < PositionOf(GlyphAt(q))
                  /\ \A k \in p[2]..q[2] :
                         WordOf(ret[p[1]][k][1]) = WordOf(GlyphAt(p))

\* A word of two glyphs was deferred at an overflow and emitted on a later line.
IndivisibilityWitness ==
    /\ pc = "done"
    /\ \E p, q \in Places :
          /\ p[1] >= 2
          /\ Len(ret[p[1] - 1]) >= 1
          /\ p[2] < q[2]
          /\ WordOf(GlyphAt(p)) = WordOf(GlyphAt(q))

\* C3 (overwide word): when the second word, closed by a glue, is wider than
\* the target width, all its glyphs are emitted once, on one line, and that
\* line's last glyph ends beyond the target width.
OverwideWord ==
    (pc = "done" /\ GlueCount >= 2 /\ SumWidths(WordBoxes(1)) > text_width) =>
        \E l \in 1..Len(ret) :
            /\ \A i \in WordBoxes(1) :
                   /\ Cardinality(PlacesOf(paragraph[i].glyph)) = 1
                   /\ \A p \in PlacesOf(paragraph[i].glyph) : p[1] = l
            /\ LET last == ret[l][Len(ret[l])]
               IN  last[2] + WidthOf(last[1]) > text_width

\* The paragraph without the penalties that follow its first item.
RECURSIVE WithoutPenalties(_)
WithoutPenalties(items) ==
    IF items = <<>> THEN <<>>
    ELSE IF Head(items).kind = "Penalty" THEN WithoutPenalties(Tail(items))
         ELSE <<Head(items)>> \o WithoutPenalties(Tail(items))

StripPenalties(items) ==
    IF items = <<>> THEN <<>> ELSE <<Head(items)>> \o WithoutPenalties(Tail(items))

\* The kinds of the items the loop reads, penalties left out.
BodyKinds ==
    LET body == WithoutPenalties(IF paragraph = <<>> THEN <<>> ELSE Tail(paragraph))
    IN  [i \in 1..Len(body) |-> body[i].kind]

\* Three one-glyph words, the third closed by a glue or not.
ThreeWords ==
    BodyKinds \in {<<"Box", "Glue", "Box", "Glue", "Box">>,
                   <<"Box", "Glue", "Box", "Glue", "Box", "Glue">>}

ThreeWordsClosed == BodyKinds = <<"Box", "Glue", "Box", "Glue", "Box", "Glue">>

LoopBoxes == {i \in BoxPositions : i > 1}

LoopGlues == {j \in 2..Len(paragraph) : paragraph[j].kind = "Glue"}

\* The natural width of what the loop reads: its boxes and its glue.
NaturalWidth == SumWidths(LoopBoxes) + SumWidths(LoopGlues)

\* The running extent the loop reaches with no flush.
RunningExtent == SumWidths(LoopBoxes) + GlueCount * FixedSpace

\* Line l starts at offset 0 and each later glyph follows its predecessor's
\* end by gap.
SpacedBy(l, gap) ==
    \A k \in 1..Len(ret[l]) :
        ret[l][k][2] = IF k = 1 THEN 0
                       ELSE ret[l][k - 1][2] + WidthOf(ret[l][k - 1][1]) + gap

\* C4 as stated (three words, each closed by a glue): one line, the gap
\* between the glyphs being (target width - sum of word widths) / (3 - 1).
ThreeWordsComputedGap ==
    (pc = "done" /\ ThreeWordsClosed /\ NaturalWidth < text_width) =>
        /\ Len(ret) = 1
        /\ SpacedBy(1, (text_width - SumWidths(LoopBoxes)) \div 2)

\* C4 as amended: three one-glyph words whose running extent (glyph widths
\* plus 7.5 pt per glue) does not exceed the target width give one line, its
\* glyphs spaced by the fixed 7.5 pt; all three glyphs are on it when the
\* third word is closed by a glue.
ThreeWordsFixedGap ==
    (pc = "done" /\ ThreeWords /\ RunningExtent <= text_width) =>
        /\ Len(ret) = 1
        /\ SpacedBy(1, FixedSpace)
        /\ ThreeWordsClosed => Len(ret[1]) = 3

ThreeWordsWitness ==
    /\ pc = "done"
    /\ ThreeWordsClosed
    /\ RunningExtent <= text_width
    /\ Len(ret) = 1
    /\ Len(ret[1]) = 3
    /\ ret[1][3][2] > ret[1][2][2]

\* C5 (no division by zero): a division is made with a divisor of at least
\* 1, and a flushed line of one word or none is spaced by the fixed 7.5 pt
\* with no division.
NoDivisionByZero ==
    \A k \in 1..Len(layout) :
        /\ layout[k].divided => layout[k].divisor >= 1
        /\ (~layout[k].final /\ layout[k].words <= 1) =>
              (~layout[k].divided /\ layout[k].space = FixedSpace)

\* A flush kept one word, and a flush divided for a line with an empty word.
NoDivisionByZeroWitness ==
    /\ \E k \in 1..Len(layout) :
          ~layout[k].final /\ layout[k].words = 1 /\ layout[k].sizes[1] > 0
    /\ \E k \in 1..Len(layout) :
          /\ layout[k].divided
          /\ \E j \in 1..layout[k].words : layout[k].sizes[j] = 0

\* C6 (glue bounds): the gap given to the glue between two words that have
\* glyphs is within its natural width less its shrinkability and plus its
\* stretchability (justify's result has no way to signal an underfull or
\* overfull line).
GlueBounds ==
    \A k \in 1..Len(layout) :
        \A j \in 1..Len(layout[k].glues) :
            (layout[k].sizes[j] > 0 /\ layout[k].sizes[j + 1] > 0) =>
                LET g == layout[k].glues[j]
                IN  /\ layout[k].space >= g.width - g.shrinkability
                    /\ layout[k].space <= g.width + g.stretchability

\* C8 (penalties are inert): the result is that of the paragraph with the
\* penalties after its first item removed.
PenaltiesInert ==
    pc = "done" => ret = Justify(StripPenalties(paragraph), text_width)

\* The paragraph has a penalty inside a word of a line that was flushed.
PenaltiesInertWitness ==
    /\ pc = "done"
    /\ Len(ret) >= 2
    /\ Len(ret[1]) >= 2
    /\ \E i \in 3..Len(paragraph) :
          /\ paragraph[i].kind = "Penalty"
          /\ paragraph[i - 1].kind = "Box"
          /\ i < Len(paragraph) /\ paragraph[i + 1].kind = "Box"

\* C9 (glyphs never overlap): on every emitted line each glyph after the
\* first starts at or after the end of its predecessor.
NoOverlap ==
    \A p \in Places :
        p[2] > 1 =>
            OffsetAt(p) >= OffsetAt(<<p[1], p[2] - 1>>)
                             + WidthOf(GlyphAt(<<p[1], p[2] - 1>>))

\* C10 (only single-word lines may be overfull): on a line with glyphs of two
\* or more words every glyph ends within the target width.
OnlySingleWordOverfull ==
    \A p \in Places :
        Cardinality(WordsOn(p[1])) >= 2 =>
            OffsetAt(p) + WidthOf(GlyphAt(p)) <= text_width

----------------------------------------------------------------------------
(* Properties of the conversions *)

\* sp is the integer nearest to a / b (b > 0), the farther from zero of the
\* two when a / b is half way; err is a - b * sp.
Nearest(sp, err, b) ==
    /\ 2 * Abs(err) <= b
    /\ 2 * Abs(err) = b => (sp /= 0 /\ Sign(sp) = -Sign(err))

\* C7: Sp::from(Pt(p)) is the integer nearest to 65536 * p and Sp::from(Mm(m))
\* the integer nearest to (72.27 / 25.4) * 65536 * m, a half going away from
\* zero; Mm(17.5) gives Sp(3263190) and Pt(56.82) gives Sp(3723756).
RoundsToNearest ==
    /\ conv.from = "Pt" =>
          /\ Nearest(conv.sp, SpPerPt * conv.num - conv.den * conv.sp, conv.den)
          /\ (conv.num = 5682 /\ conv.den = 100) => conv.sp = 3723756
    /\ conv.from = "Mm" =>
          LET a == PtPerInch100 * SpPerPt
              b == MmPerInch100 * conv.den
              \* a * num - b * sp, with a = q * b + r
              err == b * ((a \div b) * conv.num - conv.sp) + (a % b) * conv.num
          IN  /\ Nearest(conv.sp, err, b)
              /\ (conv.num = 175 /\ conv.den = 10) => conv.sp = 3263190

\* A negative tie was converted: -3 / 131072 pt is -1.5 sp and gives Sp(-2).
RoundsToNearestWitness ==
    /\ conv.from = "Pt"
    /\ conv.num = -3
    /\ conv.den = 2 * SpPerPt
    /\ conv.sp = -2

====
